---- MODULE Spec2Model ----
(***************************************************************************)
(* The three notebooks of the repository as one state machine:             *)
(*   step-1-data-curation.ipynb   (curation, formatting, split, submission)*)
(*   step-2-download-model.ipynb  (download and conversion of the model)   *)
(*   step 3 (src/unnamed/part_000) (sanity check, training, inference)     *)
(* A notebook is run top to bottom; a cell that raises ends the run.       *)
(* The state is the kernel's variables, the position in the notebook and   *)
(* the files on disk, which are all that one notebook hands to the next.   *)
(*                                                                         *)
(* A text is the sequence of its words, so its word count is its length.   *)
(* VAL_RATIO is held in hundredths (5 stands for 0.05).                    *)
(***************************************************************************)
EXTENDS Integers, Sequences, FiniteSets

\* ---------------------------------------------------------------- bounds
\* The largest number of records the remote dataset holds.
MaxRecords == 3

\* ------------------------------------------------------ program constants
min_words == 50
max_words == 500
score_threshold == 0

\* ------------------------------------------------------------------ paths
DATA_DIR == "data"
CURATED_DIR == "data/curated_dataset"
CURATED_FILE == "data/curated_dataset/law-stackexchange-curated.jsonl"
SPLIT_DIR == "data/split"
TRAIN_FILE == "data/split/train.jsonl"
VAL_FILE == "data/split/val.jsonl"
SUBMISSION_FILE == "data/split/submission.jsonl"
EVAL_INPUT == "data/submission/evaluation-dataset-verified-for-participants.jsonl"

HF_MODEL_DIR == "models/gemma-2-2b"
NEMO_MODEL == "models/gemma-2-2b.nemo"
CONVERSION_LOG == "model_conversion.log"
RESULT_DIR == "results"
ADAPTER == "results/checkpoints/megatron_gpt_peft_lora_tuning.nemo"
INFERENCE_DIR == "results/inference"
PREDICTIONS == "results/inference/infer-submission.jsonl_test_infer_inputs_preds_labels.jsonl"

IDX_TRAIN == "data/split/train.jsonl.idx.npy"
IDX_TEST == "data/split/submission.jsonl.idx.npy"

\* The files whose content is one text: the log and the checkpoints.
TextPaths == {CONVERSION_LOG, NEMO_MODEL, ADAPTER, PREDICTIONS}

\* The line-delimited JSON files of the workflow.
JsonlPaths == {CURATED_FILE, TRAIN_FILE, VAL_FILE, SUBMISSION_FILE, EVAL_INPUT}

\* os.path.join(output_dir, filename) for the directories the notebook writes to.
PathJoin(dir, filename) == dir \o "/" \o filename

\* ------------------------------------------------------------------ texts
\* A text of n words.
Words(n) == [i \in 1..n |-> "w"]

\* One raw question/answer item as download_and_convert_dataset delivers it.
Record(title, nwords, qscore, ascore, tags) ==
    [title |-> title, question |-> Words(nwords), answer |-> <<"answer">>,
     tags |-> tags, question_score |-> qscore, answer_score |-> ascore]

\* The records the remote dataset is made of: the word-count boundaries
\* (49, 50, 500, 501 words), the score boundary (-1, 0), titles with a word
\* mis-encoded once and twice over, and a record whose tag list is empty.
SourceRecords ==
    { Record(<<"Tenant", "rights_mojibake">>, 50, 0, 2, "contracts,leases"),
      Record(<<"Lease", "issue">>, 500, 2, 0, ""),
      Record(<<"Contract", "dispute">>, 501, 3, 1, "contracts"),
      Record(<<"Short", "rights_mojibake_twice">>, 49, 1, 1, "tax"),
      Record(<<"Lease", "issue">>, 120, 0 - 1, 1, "leases") }

RawColumns == {"title", "question", "answer", "tags", "question_score", "answer_score"}

\* A dataframe: its columns and its rows; a row carries its pandas index.
DataFrame(columns, rows) == [columns |-> columns, rows |-> rows]

\* A name that is not bound to a dataset (yet).
Undefined == DataFrame({}, <<>>)

\* The row r with index i.
WithIndex(r, i) == [f \in (DOMAIN r) \cup {"index"} |-> IF f = "index" THEN i ELSE r[f]]

\* DocumentDataset.from_pandas(download_and_convert_dataset(DATA_DIR)) for the
\* remote records recs: a RangeIndex over the rows.
from_records(columns, recs) ==
    DataFrame(columns, [i \in 1..Len(recs) |-> WithIndex(recs[i], i)])

\* The datasets the remote host may hold.
RemoteDatasets == UNION { [1..n -> SourceRecords] : n \in 0..MaxRecords }

\* The evaluation file: title and question, no tags.
EvalRecords ==
    << [title |-> <<"Eviction", "notice">>, question |-> Words(3)],
       [title |-> <<>>, question |-> <<>>] >>

\* The content of an output file left by an earlier run.
StaleLines == << [input |-> <<"stale">>, output |-> "stale", filename |-> "stale"] >>

\* ------------------------------------------------------------ the pipeline
\* The words that reach the pipeline mis-encoded, once or twice over.
Mojibake == {"rights_mojibake", "rights_mojibake_twice"}

\* One repair of a word: one layer of mis-encoding is undone.
fix_encoding_one_step(word) ==
    CASE word = "rights_mojibake_twice" -> "rights_mojibake"
      [] word = "rights_mojibake" -> "rights"
      [] OTHER -> word

\* ftfy's fix_text on a word: the repair is repeated until the word stops
\* changing (no word has more layers than there are mis-encoded words).
fix_text(word) ==
    IF fix_encoding_one_step(word) = word THEN word
    ELSE LET step[k \in 0..Cardinality(Mojibake)] ==
                 IF k = 0 THEN word ELSE fix_encoding_one_step(step[k - 1])
         IN  step[Cardinality(Mojibake)]

\* A variant that repairs one layer only.
UnicodeReformatter_OneStep(text) ==
    [i \in DOMAIN text |-> fix_encoding_one_step(text[i])]

\* UnicodeReformatter: ftfy repairs the mis-encoded words, the others are kept.
UnicodeReformatter(text) ==
    [i \in DOMAIN text |-> fix_text(text[i])]

\* modifier.modify_document(text) for the modifiers of the pipeline.
modify_document(modifier, text) ==
    CASE modifier = "UnicodeReformatter" -> UnicodeReformatter(text)

\* Modify(modifier, text_field): the modifier applied to one field of every row.
Modify(dataset, modifier, text_field) ==
    DataFrame(dataset.columns,
              [i \in DOMAIN dataset.rows |->
                  [dataset.rows[i] EXCEPT ![text_field] = modify_document(modifier, @)]])

\* WordCountFilter.score_document: the number of words of the text.
WordCountFilter_score(text) == Len(text)

\* A variant that forgets the lower bound.
WordCountFilter_keep_NoLowerBound(score) == score <= max_words

\* WordCountFilter(min_words=50, max_words=500).keep_document.
WordCountFilter_keep(score) == min_words <= score /\ score <= max_words

\* FilterLowScores(score_threshold=0).score_document (helpers/filters.py).
FilterLowScores_score(score) == score >= score_threshold

\* FilterLowScores.keep_document: the score is the decision.
FilterLowScores_keep(score) == score

\* filter.score_document(text) for the filters of the pipeline.
score_document(filter, text) ==
    CASE filter = "WordCountFilter" -> WordCountFilter_score(text)
      [] filter = "FilterLowScores" -> FilterLowScores_score(text)

\* filter.keep_document(score) for the filters of the pipeline.
keep_document(filter, score) ==
    CASE filter = "WordCountFilter" -> WordCountFilter_keep(score)
      [] filter = "FilterLowScores" -> FilterLowScores_keep(score)

\* ScoreFilter(filter, text_field): the rows whose score the filter keeps.
ScoreFilter(dataset, filter, text_field) ==
    DataFrame(dataset.columns,
              SelectSeq(dataset.rows,
                        LAMBDA r : keep_document(filter, score_document(filter, r[text_field]))))

\* The third stage of cpu_curation_steps.
WordCountStage(dataset) ==
    ScoreFilter(dataset, "WordCountFilter", "question")

\* A variant that reads the answer's score instead of the question's.
ScoreStage_OnAnswerScore(dataset) ==
    ScoreFilter(dataset, "FilterLowScores", "answer_score")

\* The fourth stage of cpu_curation_steps.
ScoreStage(dataset) ==
    ScoreFilter(dataset, "FilterLowScores", "question_score")

\* df.drop(columns=...).
drop(df, columns) ==
    DataFrame(df.columns \ columns,
              [i \in DOMAIN df.rows |->
                  [f \in (DOMAIN df.rows[i]) \ columns |-> df.rows[i][f]]])

\* ---------------------------------------------------------- format_dataset
SYSTEM_PROMPT ==
    << "Read", "the", "following", "title", "and", "question", "about", "a",
       "legal", "issue", "and", "assign", "the", "most", "appropriate", "tag",
       "to", "it.", "All", "tags", "must", "be", "in", "lowercase,", "ordered",
       "lexicographically", "and", "separated", "by", "commas." >>

\* A variant that leaves the output empty whether or not there are tags.
format_row_OutputEmpty(r, has_tags, filename) ==
    [f \in (DOMAIN r) \cup {"input", "output", "filename"} |->
        CASE f = "input" ->
                SYSTEM_PROMPT \o <<"TITLE:">> \o r.title \o <<"QUESTION:">> \o r.question
          [] f = "output" -> ""
          [] f = "filename" -> filename
          [] OTHER -> r[f]]

\* One row of format_dataset: input, output and filename are set.
format_row(r, has_tags, filename) ==
    [f \in (DOMAIN r) \cup {"input", "output", "filename"} |->
        CASE f = "input" ->
                SYSTEM_PROMPT \o <<"TITLE:">> \o r.title \o <<"QUESTION:">> \o r.question
          [] f = "output" -> (IF has_tags THEN r.tags ELSE "")
          [] f = "filename" -> filename
          [] OTHER -> r[f]]

\* format_dataset(dataset, filename): the three columns are added, then
\* title, question and (if there) tags are dropped.
format_dataset(dataset, filename) ==
    LET has_tags == "tags" \in dataset.columns
        df == DataFrame(dataset.columns \cup {"input", "output", "filename"},
                        [i \in DOMAIN dataset.rows |->
                            format_row(dataset.rows[i], has_tags, filename)])
        dropped == drop(df, {"title", "question"})
    IN  IF has_tags THEN drop(dropped, {"tags"}) ELSE dropped

\* ------------------------------------------------------------------ to_json
\* One line of a written file: the row's columns (the index is not written).
Line(df, r) == [c \in df.columns |-> r[c]]

\* The files to_json(output_dir, write_to_filename=True) writes: one per
\* filename found in the rows, none for an empty dataset.
to_json_files(dataset, output_dir) ==
    { PathJoin(output_dir, dataset.rows[i].filename) : i \in DOMAIN dataset.rows }

\* The content to_json writes to path.
to_json_lines(dataset, output_dir, path) ==
    LET mine == SelectSeq(dataset.rows, LAMBDA r : PathJoin(output_dir, r.filename) = path)
    IN  [i \in DOMAIN mine |-> Line(dataset, mine[i])]

\* -------------------------------------------------------------- the split
\* The validation ratios a run may be configured with, in hundredths: the
\* notebook's own 0.05, the ends of the range, a half, and one out of range.
ValRatios == {0, 5, 50, 100, 150}

\* A variant that rounds the product (a half upwards).
val_size_of_Rounded(n, ratio) == (n * ratio + 50) \div 100

\* int(len(df) * VAL_RATIO): truncation of the product (never negative here).
val_size_of(n, ratio) == (n * ratio) \div 100

\* numpy's RandomState(42).permutation(n) is one fixed permutation of 1..n.
permutations(n) ==
    { p \in [1..n -> 1..n] : \A i, j \in 1..n : i # j => p[i] # p[j] }

\* sklearn's check of an integer test_size: ValueError unless 0 < test_size < n.
test_size_ok(n_samples, test_size) == test_size > 0 /\ test_size < n_samples

\* The rows of df at the positions ind.
iloc(df, ind) == DataFrame(df.columns, [k \in DOMAIN ind |-> df.rows[ind[k]]])

\* train_test_split(df, test_size, random_state): the test rows are the first
\* test_size positions of the permutation, the train rows the rest.
split_test(df, test_size, permutation) ==
    iloc(df, SubSeq(permutation, 1, test_size))

\* A variant whose train rows start one position early.
split_train_Overlap(df, test_size, permutation) ==
    iloc(df, SubSeq(permutation, test_size, Len(df.rows)))

split_train(df, test_size, permutation) ==
    iloc(df, SubSeq(permutation, test_size + 1, Len(df.rows)))

\* A variant without the check of VAL_RATIO.
split_assertions_NoRangeCheck(n, ratio) ==
    IF ~(n > 0) THEN "The dataset is empty." ELSE ""

\* The sanity checks of the split cell: the message of the assertion that
\* fails, or "" when both hold.
split_assertions(n, ratio) ==
    IF ~(n > 0) THEN "The dataset is empty."
    ELSE IF ~(ratio >= 0 /\ ratio <= 100) THEN "VAL_RATIO must be between 0 and 1."
    ELSE ""

\* A variant that leaves the rows tagged as they are.
set_filename_Kept(df, filename) == df

\* df["filename"] = filename.
set_filename(df, filename) ==
    DataFrame(df.columns \cup {"filename"},
              [i \in DOMAIN df.rows |->
                  [f \in (DOMAIN df.rows[i]) \cup {"filename"} |->
                      IF f = "filename" THEN filename ELSE df.rows[i][f]]])

\* ------------------------------------------------------------------- state
VARIABLES
    remote_dataset,     \* the records the dataset host serves
    VAL_RATIO,          \* the configured validation ratio, in hundredths
    permutation42,      \* what RandomState(42).permutation(n) yields, once drawn
    fs_exists,          \* the files and directories on disk
    fs_jsonl,           \* the lines of each .jsonl file on disk
    pc1,                \* step 1: the next cell, or idle / done / aborted
    error,              \* per notebook, the message of the exception that ended its run
    run_writes,         \* the paths the current run of step 1 has created or written
    raw_dataset, dataset, curated_dataset, formatted_dataset,
    train_df, val_df, submission_ds,
    fs_text,            \* the content of the log and of each checkpoint on disk
    reported,           \* the subprocess failures the current runs have shown the user
    pc2,                \* step 2: the next cell, or idle / done / aborted
    process,            \* step 2: the CompletedProcess of the converter
    pc3,                \* step 3: the next cell, or idle / done / aborted
    train_status,       \* step 3: how the trainer of this run exited
    infer_status        \* step 3: how the generator of this run exited

config == <<remote_dataset, VAL_RATIO>>
disk == <<fs_exists, fs_jsonl>>
kernel1 == <<raw_dataset, dataset, curated_dataset, formatted_dataset,
             train_df, val_df, submission_ds>>
step2 == <<pc2, process>>
step3 == <<pc3, train_status, infer_status>>
\* What step 1 never touches.
beyond1 == <<fs_text, reported, step2, step3>>
vars == <<config, permutation42, disk, pc1, error, run_writes, kernel1,
          fs_text, reported, step2, step3>>

\* A notebook is running when it is between its first and its last cell.
Running(pc) == pc \notin {"idle", "done", "aborted"}

\* No subprocess has run (yet) in this run.
NoProcess == [returncode |-> 0, stdout |-> ""]

\* The files an earlier, complete run of step 1 leaves behind.
Step1Outputs ==
    {DATA_DIR, CURATED_DIR, CURATED_FILE, SPLIT_DIR, TRAIN_FILE, VAL_FILE, SUBMISSION_FILE}

EvalInputFiles == {DATA_DIR, EVAL_INPUT}

\* The lines on disk when the files of `exists` are there and no run has written yet.
InitialLines(exists) ==
    [p \in JsonlPaths |->
        IF p \notin exists THEN <<>>
        ELSE IF p = EVAL_INPUT THEN EvalRecords ELSE StaleLines]

\* The text files on disk when the files of `exists` are there.
InitialTexts(exists) == [p \in TextPaths |-> IF p \in exists THEN "stale" ELSE ""]

\* The kernel of step 1 holds nothing.
InitKernel1 ==
    /\ run_writes = {}
    /\ raw_dataset = Undefined
    /\ dataset = Undefined
    /\ curated_dataset = Undefined
    /\ formatted_dataset = Undefined
    /\ train_df = Undefined
    /\ val_df = Undefined
    /\ submission_ds = Undefined

\* No notebook has run in this session.
InitKernels ==
    /\ permutation42 = [n \in 1..MaxRecords |-> <<>>]
    /\ pc1 = "idle"
    /\ pc2 = "idle"
    /\ pc3 = "idle"
    /\ process = NoProcess
    /\ train_status = "none"
    /\ infer_status = "none"
    /\ reported = {}
    /\ error = [k \in 1..3 |-> ""]
    /\ InitKernel1

\* The curation notebook over every dataset and ratio, on a disk that holds
\* or lacks the evaluation file and the outputs of an earlier run.
Init ==
    /\ remote_dataset \in RemoteDatasets
    /\ VAL_RATIO \in ValRatios
    /\ \E stale \in {{}, Step1Outputs}, eval \in {{}, EvalInputFiles} :
          /\ fs_exists = stale \cup eval
          /\ fs_jsonl = InitialLines(stale \cup eval)
          /\ fs_text = InitialTexts(stale \cup eval)
    /\ InitKernels

\* ------------------------------------------------- step 1: data curation
\* A variant in which the run goes on to the submission cell.
Abort1_Continues(message) ==
    /\ pc1' = "submission"
    /\ error' = [error EXCEPT ![1] = message]

\* The cell raises: the run of the notebook ends here.
Abort1(message) ==
    /\ pc1' = "aborted"
    /\ error' = [error EXCEPT ![1] = message]

\* "Run All" on a kernel that holds nothing.
Start1 ==
    /\ ~Running(pc1) /\ ~Running(pc2) /\ ~Running(pc3)
    /\ pc1' = "setup"
    /\ error' = [error EXCEPT ![1] = ""]
    /\ run_writes' = {}
    /\ raw_dataset' = Undefined
    /\ dataset' = Undefined
    /\ curated_dataset' = Undefined
    /\ formatted_dataset' = Undefined
    /\ train_df' = Undefined
    /\ val_df' = Undefined
    /\ submission_ds' = Undefined
    /\ UNCHANGED <<beyond1, config, permutation42, disk>>

\* os.makedirs(DATA_DIR, exist_ok=True)
SetupCell ==
    /\ pc1 = "setup"
    /\ fs_exists' = fs_exists \cup {DATA_DIR}
    /\ run_writes' = run_writes \cup ({DATA_DIR} \ fs_exists)
    /\ pc1' = "download"
    /\ UNCHANGED <<beyond1, config, permutation42, fs_jsonl, error, kernel1>>

\* raw_dataset = DocumentDataset.from_pandas(download_and_convert_dataset(DATA_DIR))
DownloadCell ==
    /\ pc1 = "download"
    /\ raw_dataset' = from_records(RawColumns, remote_dataset)
    /\ pc1' = "normalize_title"
    /\ UNCHANGED <<beyond1, config, permutation42, disk, error, run_writes, dataset,
                   curated_dataset, formatted_dataset, train_df, val_df, submission_ds>>

\* One stage of cpu_curation_steps, from cell `at` to cell `next`.
PipelineStage(at, next, result) ==
    /\ pc1 = at
    /\ dataset' = result
    /\ pc1' = next
    /\ UNCHANGED <<beyond1, config, permutation42, disk, error, run_writes, raw_dataset,
                   curated_dataset, formatted_dataset, train_df, val_df, submission_ds>>

\* run_curation_pipeline(raw_dataset, device): Modify(UnicodeReformatter(), "title")
NormalizeTitle ==
    PipelineStage("normalize_title", "normalize_question",
                  Modify(raw_dataset, "UnicodeReformatter", "title"))

\* Modify(UnicodeReformatter(), text_field="question")
NormalizeQuestion ==
    PipelineStage("normalize_question", "filter_words",
                  Modify(dataset, "UnicodeReformatter", "question"))

\* ScoreFilter(WordCountFilter(min_words=50, max_words=500), text_field="question")
FilterWordCount ==
    PipelineStage("filter_words", "filter_score", WordCountStage(dataset))

\* A variant whose score filter is given the raw dataset.
FilterScore_OnRaw ==
    PipelineStage("filter_score", "drop_columns", ScoreStage(raw_dataset))

\* ScoreFilter(FilterLowScores(score_threshold=0), text_field="question_score")
FilterScore ==
    PipelineStage("filter_score", "drop_columns", ScoreStage(dataset))

\* dataset.df.drop(columns=["answer", "answer_score", "question_score"]); return
DropColumns ==
    /\ pc1 = "drop_columns"
    /\ curated_dataset' = drop(dataset, {"answer", "answer_score", "question_score"})
    /\ pc1' = "format"
    /\ UNCHANGED <<beyond1, config, permutation42, disk, error, run_writes, raw_dataset,
                   dataset, formatted_dataset, train_df, val_df, submission_ds>>

\* formatted_dataset = format_dataset(curated_dataset, "law-stackexchange-curated.jsonl")
FormatCell ==
    /\ pc1 = "format"
    /\ formatted_dataset' = format_dataset(curated_dataset, "law-stackexchange-curated.jsonl")
    /\ pc1' = "save"
    /\ UNCHANGED <<beyond1, config, permutation42, disk, error, run_writes, raw_dataset,
                   dataset, curated_dataset, train_df, val_df, submission_ds>>

\* The disk after datasets.to_json(output_dir, write_to_filename=True), one
\* dataset after the other, with output_dir made if it is missing.
WriteDatasets(datasets, output_dir) ==
    LET written == UNION { to_json_files(datasets[k], output_dir) : k \in DOMAIN datasets }
        WriterOf(path) ==
            CHOOSE k \in DOMAIN datasets :
                /\ path \in to_json_files(datasets[k], output_dir)
                /\ \A j \in DOMAIN datasets :
                      path \in to_json_files(datasets[j], output_dir) => j <= k
    IN  /\ fs_exists' = fs_exists \cup {output_dir} \cup written
        /\ fs_jsonl' = [p \in JsonlPaths |->
                          IF p \in written
                          THEN to_json_lines(datasets[WriterOf(p)], output_dir, p)
                          ELSE fs_jsonl[p]]
        /\ run_writes' = run_writes \cup ({output_dir} \ fs_exists) \cup written

\* formatted_dataset.to_json(result_fp, write_to_filename=True)
SaveCell ==
    /\ pc1 = "save"
    /\ WriteDatasets(<<formatted_dataset>>, CURATED_DIR)
    /\ pc1' = "split"
    /\ UNCHANGED <<beyond1, config, permutation42, error, kernel1>>

\* A variant whose shuffle is drawn anew in every run.
SplitCell_Unseeded ==
    /\ pc1 = "split"
    /\ LET df == formatted_dataset
           n == Len(df.rows)
           failed == split_assertions(n, VAL_RATIO)
           val_size == val_size_of(n, VAL_RATIO)
       IN  IF failed # ""
           THEN /\ Abort1(failed)
                /\ UNCHANGED <<permutation42, disk, run_writes, train_df, val_df>>
           ELSE IF ~test_size_ok(n, val_size)
           THEN /\ Abort1("ValueError: test_size")
                /\ fs_exists' = fs_exists \cup {SPLIT_DIR}
                /\ run_writes' = run_writes \cup ({SPLIT_DIR} \ fs_exists)
                /\ UNCHANGED <<permutation42, fs_jsonl, train_df, val_df>>
           ELSE \E p \in permutations(n) :
                /\ permutation42' = [permutation42 EXCEPT ![n] = p]
                /\ train_df' = set_filename(split_train(df, val_size, p), "train.jsonl")
                /\ val_df' = set_filename(split_test(df, val_size, p), "val.jsonl")
                /\ WriteDatasets(<<train_df', val_df'>>, SPLIT_DIR)
                /\ pc1' = "submission"
                /\ UNCHANGED error
    /\ UNCHANGED <<beyond1, config, raw_dataset, dataset, curated_dataset, formatted_dataset,
                   submission_ds>>

\* The split cell: sanity checks, os.makedirs(output_dir), train_test_split
\* and the two to_json calls.
SplitCell ==
    /\ pc1 = "split"
    /\ LET df == formatted_dataset
           n == Len(df.rows)
           failed == split_assertions(n, VAL_RATIO)
           val_size == val_size_of(n, VAL_RATIO)
       IN  IF failed # ""
           THEN /\ Abort1(failed)
                /\ UNCHANGED <<permutation42, disk, run_writes, train_df, val_df>>
           ELSE IF ~test_size_ok(n, val_size)
           THEN /\ Abort1("ValueError: test_size")
                /\ fs_exists' = fs_exists \cup {SPLIT_DIR}
                /\ run_writes' = run_writes \cup ({SPLIT_DIR} \ fs_exists)
                /\ UNCHANGED <<permutation42, fs_jsonl, train_df, val_df>>
           ELSE \E p \in permutations(n) :
                /\ permutation42[n] \in {<<>>, p}
                /\ permutation42' = [permutation42 EXCEPT ![n] = p]
                /\ train_df' = set_filename(split_train(df, val_size, p), "train.jsonl")
                /\ val_df' = set_filename(split_test(df, val_size, p), "val.jsonl")
                /\ WriteDatasets(<<train_df', val_df'>>, SPLIT_DIR)
                /\ pc1' = "submission"
                /\ UNCHANGED error
    /\ UNCHANGED <<beyond1, config, raw_dataset, dataset, curated_dataset, formatted_dataset,
                   submission_ds>>

\* DocumentDataset.read_json(path): the lines of the file, with a RangeIndex.
read_json(path) ==
    from_records(UNION { DOMAIN fs_jsonl[path][i] : i \in DOMAIN fs_jsonl[path] },
                 fs_jsonl[path])

\* The submission cell: the assertion, read_json, format_dataset, to_json.
SubmissionCell ==
    /\ pc1 = "submission"
    /\ IF EVAL_INPUT \notin fs_exists
       THEN /\ Abort1("The submission dataset does not exist")
            /\ UNCHANGED <<disk, run_writes, submission_ds>>
       ELSE /\ submission_ds' = format_dataset(read_json(EVAL_INPUT), "submission.jsonl")
            /\ WriteDatasets(<<submission_ds'>>, SPLIT_DIR)
            /\ pc1' = "exit"
            /\ UNCHANGED error
    /\ UNCHANGED <<beyond1, config, permutation42, raw_dataset, dataset, curated_dataset,
                   formatted_dataset, train_df, val_df>>

\* client.close(); exit(0)
ExitCell ==
    /\ pc1 = "exit"
    /\ pc1' = "done"
    /\ UNCHANGED <<beyond1, config, permutation42, disk, error, run_writes, kernel1>>

Step1 ==
    \/ Start1
    \/ SetupCell
    \/ DownloadCell
    \/ NormalizeTitle
    \/ NormalizeQuestion
    \/ FilterWordCount
    \/ FilterScore
    \/ DropColumns
    \/ FormatCell
    \/ SaveCell
    \/ SplitCell
    \/ SubmissionCell
    \/ ExitCell

Spec == Init /\ [][Step1]_vars

\* ---------------------------------------- step 2: download and conversion
\* What the converter may print (stdout and stderr combined).
ConverterOutputs == {"conversion output A", "conversion output B"}

Abort2(message) ==
    /\ pc2' = "aborted"
    /\ error' = [error EXCEPT ![2] = message]

\* "Run All" on step 2.
Start2 ==
    /\ ~Running(pc1) /\ ~Running(pc2) /\ ~Running(pc3)
    /\ pc2' = "download"
    /\ process' = NoProcess
    /\ error' = [error EXCEPT ![2] = ""]
    /\ reported' = reported \ {"conversion"}
    /\ UNCHANGED <<config, permutation42, disk, fs_text, pc1, run_writes, kernel1, step3>>

\* login(token=HF_TOKEN); snapshot_download(repo_id=model_to_use, local_dir=...):
\* the gated model is delivered, or the call raises.
DownloadModelCell ==
    /\ pc2 = "download"
    /\ \E granted \in BOOLEAN :
          IF granted
          THEN /\ fs_exists' = fs_exists \cup {HF_MODEL_DIR}
               /\ pc2' = "convert"
               /\ UNCHANGED error
          ELSE /\ Abort2("snapshot_download failed")
               /\ UNCHANGED fs_exists
    /\ UNCHANGED <<config, permutation42, fs_jsonl, fs_text, reported, process, pc1,
                   run_writes, kernel1, step3>>

\* A variant that leaves an old log in place.
remove_log_Kept(exists) == exists

\* if os.path.exists(log_filename): os.remove(log_filename)
remove_log(exists) == exists \ {CONVERSION_LOG}

\* A variant that writes no log when the converter fails.
conversion_files_NoLog(exists, returncode, saved) ==
    remove_log(exists) \cup (IF saved THEN {NEMO_MODEL} ELSE {})

\* The files after the conversion cell: the old log removed, the checkpoint
\* the converter saved, and the log written when the converter failed.
conversion_files(exists, returncode, saved) ==
    (remove_log(exists) \cup (IF saved THEN {NEMO_MODEL} ELSE {}))
        \cup (IF returncode = 0 THEN {} ELSE {CONVERSION_LOG})

\* The text of the log after the conversion cell.
conversion_log(exists, text, returncode, stdout) ==
    IF returncode # 0 THEN stdout
    ELSE IF CONVERSION_LOG \in remove_log(exists) THEN text ELSE ""

\* The conversion cell: the converter runs to its end; it exits 0 with the
\* checkpoint saved, or non-zero, before or after it saved the checkpoint.
ConversionCell ==
    /\ pc2 = "convert"
    /\ \E returncode \in {0, 1}, stdout \in ConverterOutputs, saved \in BOOLEAN :
          /\ returncode = 0 => saved
          /\ process' = [returncode |-> returncode, stdout |-> stdout]
          /\ fs_exists' = conversion_files(fs_exists, returncode, saved)
          /\ fs_text' = [fs_text EXCEPT
                ![NEMO_MODEL] = IF saved THEN "converted" ELSE @,
                ![CONVERSION_LOG] = conversion_log(fs_exists, @, returncode, stdout)]
          /\ reported' = IF returncode = 0 THEN reported ELSE reported \cup {"conversion"}
    /\ pc2' = "exit"
    /\ UNCHANGED <<config, permutation42, fs_jsonl, error, pc1, run_writes, kernel1, step3>>

\* exit(0)
ExitCell2 ==
    /\ pc2 = "exit"
    /\ pc2' = "done"
    /\ UNCHANGED <<config, permutation42, disk, fs_text, reported, process, error, pc1,
                   run_writes, kernel1, step3>>

Step2 ==
    \/ Start2
    \/ DownloadModelCell
    \/ ConversionCell
    \/ ExitCell2

\* ------------------------------------------- step 3: training, inference
Abort3(message) ==
    /\ pc3' = "aborted"
    /\ error' = [error EXCEPT ![3] = message]

\* "Run All" on step 3.
Start3 ==
    /\ ~Running(pc1) /\ ~Running(pc2) /\ ~Running(pc3)
    /\ pc3' = "sanity"
    /\ train_status' = "none"
    /\ infer_status' = "none"
    /\ error' = [error EXCEPT ![3] = ""]
    /\ reported' = reported \ {"training", "inference"}
    /\ UNCHANGED <<config, permutation42, disk, fs_text, pc1, run_writes, kernel1, step2>>

\* A variant that checks the checkpoint and the directory, not the two files.
sanity_assertions_DirOnly(exists) ==
    IF NEMO_MODEL \notin exists THEN "The model checkpoint does not exist."
    ELSE IF SPLIT_DIR \notin exists THEN "The data directory does not exist."
    ELSE ""

\* The assertions of the sanity-check cell: the message of the first that
\* fails, or "" when all hold.
sanity_assertions(exists) ==
    IF NEMO_MODEL \notin exists THEN "The model checkpoint does not exist."
    ELSE IF SPLIT_DIR \notin exists THEN "The data directory does not exist."
    ELSE IF TRAIN_FILE \notin exists THEN "The training data does not exist."
    ELSE IF VAL_FILE \notin exists THEN "The validation data does not exist."
    ELSE ""

\* The sanity-check cell: os.makedirs(result_dir), the assertions, %env.
SanityCell ==
    /\ pc3 = "sanity"
    /\ fs_exists' = fs_exists \cup {RESULT_DIR}
    /\ LET failed == sanity_assertions(fs_exists')
       IN  IF failed # "" THEN Abort3(failed)
           ELSE /\ pc3' = "train"
                /\ UNCHANGED error
    /\ UNCHANGED <<config, permutation42, fs_jsonl, fs_text, reported, train_status,
                   infer_status, pc1, run_writes, kernel1, step2>>

\* Everything under RESULT_DIR.
ResultFiles == {RESULT_DIR, ADAPTER, INFERENCE_DIR, PREDICTIONS}

\* A variant that clears the whole data directory.
rm_idx_AllData(exists) ==
    exists \ {IDX_TRAIN, IDX_TEST, TRAIN_FILE, VAL_FILE, SUBMISSION_FILE}

\* rm $DATA_DIR/*idx*
rm_idx(exists) == exists \ {IDX_TRAIN, IDX_TEST}

\* A variant that leaves the earlier results in place.
rm_results_Kept(exists) == exists

\* rm -r $RESULT_DIR
rm_results(exists) == exists \ ResultFiles

\* The training cell: the two rm, then torchrun; the cell raises
\* CalledProcessError when torchrun, its last command, exits non-zero.
\* A trainer that fails may have started writing (results, index cache).
TrainingCell ==
    /\ pc3 = "train"
    /\ \E returncode \in {0, 1}, started \in BOOLEAN :
          LET cleaned == rm_results(rm_idx(fs_exists))
          IN  /\ returncode = 0 => started
              /\ fs_exists' = cleaned
                    \cup (IF started THEN {RESULT_DIR, IDX_TRAIN} ELSE {})
                    \cup (IF returncode = 0 THEN {ADAPTER} ELSE {})
              /\ fs_text' = [fs_text EXCEPT
                    ![ADAPTER] = IF returncode = 0 THEN "trained"
                                 ELSE IF ADAPTER \in cleaned THEN @ ELSE "",
                    ![PREDICTIONS] = IF PREDICTIONS \in cleaned THEN @ ELSE ""]
              /\ IF returncode = 0
                 THEN /\ train_status' = "ok"
                      /\ pc3' = "infer_setup"
                      /\ UNCHANGED <<error, reported>>
                 ELSE /\ train_status' = "failed"
                      /\ Abort3("CalledProcessError")
                      /\ reported' = reported \cup {"training"}
    /\ UNCHANGED <<config, permutation42, fs_jsonl, infer_status, pc1, run_writes,
                   kernel1, step2>>

\* The cell before inference: the assertion on submission.jsonl, then
\* os.makedirs(f"{result_dir}/inference", exist_ok=True) and %env.
InferenceSetupCell ==
    /\ pc3 = "infer_setup"
    /\ IF SUBMISSION_FILE \notin fs_exists
       THEN /\ Abort3("The submission data does not exist.")
            /\ UNCHANGED fs_exists
       ELSE /\ fs_exists' = fs_exists \cup {RESULT_DIR, INFERENCE_DIR}
            /\ pc3' = "infer"
            /\ UNCHANGED error
    /\ UNCHANGED <<config, permutation42, fs_jsonl, fs_text, reported, train_status,
                   infer_status, pc1, run_writes, kernel1, step2>>

\* The inference cell: rm of the index cache, then megatron_gpt_generate.py;
\* the cell raises CalledProcessError when the generator exits non-zero.
InferenceCell ==
    /\ pc3 = "infer"
    /\ \E returncode \in {0, 1}, started \in BOOLEAN :
          /\ returncode = 0 => started
          /\ fs_exists' = rm_idx(fs_exists)
                \cup (IF started THEN {IDX_TEST} ELSE {})
                \cup (IF returncode = 0 THEN {PREDICTIONS} ELSE {})
          /\ fs_text' = [fs_text EXCEPT
                ![PREDICTIONS] = IF returncode = 0 THEN "predicted" ELSE @]
          /\ IF returncode = 0
             THEN /\ infer_status' = "ok"
                  /\ pc3' = "inspect"
                  /\ UNCHANGED <<error, reported>>
             ELSE /\ infer_status' = "failed"
                  /\ Abort3("CalledProcessError")
                  /\ reported' = reported \cup {"inference"}
    /\ UNCHANGED <<config, permutation42, fs_jsonl, train_status, pc1, run_writes,
                   kernel1, step2>>

\* ! cat results/inference/... | head -n 2
InspectCell ==
    /\ pc3 = "inspect"
    /\ pc3' = "exit"
    /\ UNCHANGED <<config, permutation42, disk, fs_text, reported, error, train_status,
                   infer_status, pc1, run_writes, kernel1, step2>>

\* exit(0)
ExitCell3 ==
    /\ pc3 = "exit"
    /\ pc3' = "done"
    /\ UNCHANGED <<config, permutation42, disk, fs_text, reported, error, train_status,
                   infer_status, pc1, run_writes, kernel1, step2>>

Step3 ==
    \/ Start3
    \/ SanityCell
    \/ TrainingCell
    \/ InferenceSetupCell
    \/ InferenceCell
    \/ InspectCell
    \/ ExitCell3

\* ------------------------------------------------------- the whole workflow
\* The files an earlier session of steps 2 and 3 leaves behind.
Step23Outputs ==
    {HF_MODEL_DIR, NEMO_MODEL, CONVERSION_LOG, RESULT_DIR, ADAPTER, INFERENCE_DIR,
     PREDICTIONS}

\* The remote datasets of the workflow runs: one whose two records survive
\* the curation, one whose only record does not.
WorkflowDatasets ==
    { << Record(<<"Tenant", "rights_mojibake">>, 50, 0, 2, "contracts,leases"),
         Record(<<"Lease", "issue">>, 500, 2, 0, "") >>,
      << Record(<<"Contract", "dispute">>, 501, 3, 1, "contracts") >> }

\* The three notebooks, run one at a time in any order and any number of
\* times, on a disk that holds or lacks what earlier sessions wrote.
InitWorkflow ==
    /\ remote_dataset \in WorkflowDatasets
    /\ VAL_RATIO \in {5, 50}
    /\ \E stale1 \in {{}, Step1Outputs}, eval \in {{}, EvalInputFiles},
          stale23 \in {{}, Step23Outputs} :
          /\ fs_exists = stale1 \cup eval \cup stale23
          /\ fs_jsonl = InitialLines(stale1 \cup eval)
          /\ fs_text = InitialTexts(stale23)
    /\ InitKernels

Next == Step1 \/ Step2 \/ Step3

SpecWorkflow == InitWorkflow /\ [][Next]_vars

\* ================================================================ claims
\* The pandas indices of the rows of df.
Indices(df) == { df.rows[i].index : i \in DOMAIN df.rows }

\* The row of df with index k.
RowAt(df, k) == CHOOSE r \in { df.rows[i] : i \in DOMAIN df.rows } : r.index = k

\* The raw records with n words in their question.
RawWithWords(n) ==
    { i \in DOMAIN raw_dataset.rows : Len(raw_dataset.rows[i].question) = n }

\* C1: every record in the output of run_curation_pipeline (and every record
\* that has passed the word-count stage) has a question of at least 50 and at
\* most 500 words.
C1_WordCountInRange ==
    /\ \A i \in DOMAIN curated_dataset.rows :
          /\ Len(curated_dataset.rows[i].question) >= 50
          /\ Len(curated_dataset.rows[i].question) <= 500
    /\ pc1 \in {"filter_score", "drop_columns"} =>
          \A i \in DOMAIN dataset.rows :
              /\ Len(dataset.rows[i].question) >= 50
              /\ Len(dataset.rows[i].question) <= 500

\* C1 witness: the pipeline has returned; the input held a question of 49
\* and one of 501 words, and a question of exactly 50 words survived.
C1_Witness ==
    /\ pc1 = "format"
    /\ RawWithWords(49) # {}
    /\ RawWithWords(501) # {}
    /\ \E i \in DOMAIN curated_dataset.rows : Len(curated_dataset.rows[i].question) = 50

\* C2: the records of the curated output are exactly the records that pass
\* the word-count filter and have question_score >= 0: none with a negative
\* score is kept, none with a score >= 0 is dropped by the score filter.
C2_ScoreFilterExact ==
    /\ pc1 = "drop_columns" =>
          \A i \in DOMAIN dataset.rows : dataset.rows[i].question_score >= 0
    /\ curated_dataset # Undefined =>
          Indices(curated_dataset) =
              { i \in DOMAIN raw_dataset.rows :
                  /\ Len(raw_dataset.rows[i].question) >= 50
                  /\ Len(raw_dataset.rows[i].question) <= 500
                  /\ raw_dataset.rows[i].question_score >= 0 }

\* C2 witness: the pipeline has returned; a record with score -1 that passes
\* the word-count filter was dropped and a record with score 0 was kept.
C2_Witness ==
    /\ pc1 = "format"
    /\ \E i \in DOMAIN raw_dataset.rows :
          /\ raw_dataset.rows[i].question_score < 0
          /\ Len(raw_dataset.rows[i].question) = 120
          /\ i \notin Indices(curated_dataset)
    /\ \E i \in Indices(curated_dataset) : raw_dataset.rows[i].question_score = 0

\* format_dataset took src to out: one formatted record per record, each
\* with a non-empty input.
Formatted(src, out) ==
    /\ Len(out.rows) = Len(src.rows)
    /\ \A i \in DOMAIN out.rows :
          /\ out.rows[i].index = src.rows[i].index
          /\ Len(out.rows[i].input) > 0

\* C3 as stated: every output is empty if and only if the source lacked tags.
OutputEmptyIffNoTags(src, out) ==
    \A i \in DOMAIN out.rows :
        (out.rows[i].output = "") <=> ("tags" \notin src.columns)

\* C3 as amended: every output is the record's tags when the source has a
\* tags column, and empty when it has none.
OutputIsTags(src, out) ==
    \A i \in DOMAIN out.rows :
        /\ "tags" \in src.columns => out.rows[i].output = src.rows[i].tags
        /\ "tags" \notin src.columns => out.rows[i].output = ""

\* C3 (original): format_dataset yields one record with a non-empty input per
\* input record, whose output is empty iff the source lacked tags.
C3_Original ==
    /\ formatted_dataset # Undefined =>
          /\ Formatted(curated_dataset, formatted_dataset)
          /\ OutputEmptyIffNoTags(curated_dataset, formatted_dataset)
    /\ submission_ds # Undefined =>
          /\ Formatted(read_json(EVAL_INPUT), submission_ds)
          /\ OutputEmptyIffNoTags(read_json(EVAL_INPUT), submission_ds)

\* C3 (amended): format_dataset yields one record with a non-empty input per
\* input record; its output is the record's tags string when the source has
\* a tags column (so it is empty for a record with no tag) and empty when
\* the source has none.
C3_FormatTotal ==
    /\ formatted_dataset # Undefined =>
          /\ Formatted(curated_dataset, formatted_dataset)
          /\ OutputIsTags(curated_dataset, formatted_dataset)
    /\ submission_ds # Undefined =>
          /\ Formatted(read_json(EVAL_INPUT), submission_ds)
          /\ OutputIsTags(read_json(EVAL_INPUT), submission_ds)

\* C3 witness: both the curated dataset (with tags) and the evaluation file
\* (without) have been formatted, and neither was empty.
C3_Witness ==
    /\ pc1 = "exit"
    /\ Len(formatted_dataset.rows) > 1
    /\ "tags" \in curated_dataset.columns
    /\ Len(submission_ds.rows) > 1
    /\ "tags" \notin read_json(EVAL_INPUT).columns

\* Python's round(num / den): to the nearest integer, a half to the even one.
PyRound(num, den) ==
    LET q == num \div den
        r == num % den
    IN  IF 2 * r < den THEN q
        ELSE IF 2 * r > den THEN q + 1
        ELSE IF q % 2 = 0 THEN q ELSE q + 1

\* The split cell has completed in this run.
SplitCompleted == train_df # Undefined

\* C4 (original): the validation partition has round(N * v) records and the
\* train partition the other N - round(N * v).
C4_Original ==
    SplitCompleted =>
        LET N == Len(formatted_dataset.rows)
        IN  /\ Len(val_df.rows) = PyRound(N * VAL_RATIO, 100)
            /\ Len(train_df.rows) = N - PyRound(N * VAL_RATIO, 100)

\* C4 (amended): whenever the split completes, the validation partition has
\* int(N * v) records, the integer part of N * v, and the train partition the
\* other N - int(N * v).
C4_SplitSizes ==
    SplitCompleted =>
        LET N == Len(formatted_dataset.rows)
            k == Len(val_df.rows)
        IN  /\ 100 * k <= N * VAL_RATIO
            /\ N * VAL_RATIO < 100 * (k + 1)
            /\ Len(train_df.rows) = N - k

\* C4 witness: a split of three records at ratio 0.5, where N * v = 1.5.
C4_Witness ==
    /\ SplitCompleted
    /\ Len(formatted_dataset.rows) = 3
    /\ VAL_RATIO = 50

SplitOutputs == {SPLIT_DIR, TRAIN_FILE, VAL_FILE}

\* The run is past the split cell.
PastSplit == pc1 \in {"submission", "exit", "done", "aborted"} /\ formatted_dataset # Undefined

\* C8: if the formatted dataset is empty or VAL_RATIO is outside [0, 1], the
\* split step raises its assertion and this run has created neither the split
\* directory nor train.jsonl nor val.jsonl.
C8_SplitAssertsFirst ==
    (PastSplit /\ (Len(formatted_dataset.rows) = 0 \/ VAL_RATIO < 0 \/ VAL_RATIO > 100)) =>
        /\ pc1 = "aborted"
        /\ error[1] \in {"The dataset is empty.", "VAL_RATIO must be between 0 and 1."}
        /\ run_writes \cap SplitOutputs = {}
        /\ train_df = Undefined
        /\ val_df = Undefined

\* C8 witness: a run on a disk with no split directory ended on the ratio
\* assertion, with a dataset that is not empty.
C8_Witness ==
    /\ pc1 = "aborted"
    /\ error[1] = "VAL_RATIO must be between 0 and 1."
    /\ Len(formatted_dataset.rows) > 0
    /\ SPLIT_DIR \notin fs_exists

\* C10: the split step writes three partitions of the curated dataset
\* (training, validation, test); training holds 80% of the records and
\* validation 10%, each to within one record.
C10_ThreeWaySplit ==
    (SplitCompleted /\ pc1 = "submission") =>
        LET N == Len(formatted_dataset.rows)
            files == {TRAIN_FILE, VAL_FILE, SUBMISSION_FILE, PathJoin(SPLIT_DIR, "test.jsonl")}
        IN  /\ Cardinality(run_writes \cap files) = 3
            /\ 100 * Len(train_df.rows) >= 80 * N - 100
            /\ 100 * Len(train_df.rows) <= 80 * N + 100
            /\ 100 * Len(val_df.rows) >= 10 * N - 100
            /\ 100 * Len(val_df.rows) <= 10 * N + 100

\* What the trainer is given: the converted checkpoint and the split files.
TrainerInputs == {NEMO_MODEL, SPLIT_DIR, TRAIN_FILE, VAL_FILE}

\* C6: the trainer is invoked only when the converted checkpoint, data/split,
\* train.jsonl and val.jsonl exist, the generator only when submission.jsonl
\* exists, the submission is formatted only when the evaluation file exists,
\* and a run in which an assertion (or any cell) failed has stopped there.
C6_StagesGuarded ==
    /\ (pc3 = "train" \/ train_status # "none") => TrainerInputs \subseteq fs_exists
    /\ (pc3 = "infer" \/ infer_status # "none") => SUBMISSION_FILE \in fs_exists
    /\ submission_ds # Undefined => EVAL_INPUT \in fs_exists
    /\ error[1] # "" => pc1 = "aborted"
    /\ error[3] # "" => pc3 = "aborted"

\* C6 witness: step 3 has passed its sanity check on files this session's
\* steps 1 and 2 wrote, and is about to invoke the trainer.
C6_Witness ==
    /\ pc3 = "train"
    /\ TRAIN_FILE \in run_writes
    /\ fs_text[NEMO_MODEL] = "converted"

\* The subprocess p of the current run exited non-zero.
Failed(p) ==
    CASE p = "conversion" -> process.returncode # 0
      [] p = "training" -> train_status = "failed"
      [] p = "inference" -> infer_status = "failed"

\* The log files the notebooks write for subprocess p.
LogFilesOf(p) == IF p = "conversion" THEN {CONVERSION_LOG} ELSE {}

\* Step 3 is past its sanity check, at or after the trainer's cell.
Step3Proceeds == pc3 \in {"train", "infer_setup", "infer", "inspect", "exit"}

\* C7 (original): a non-zero exit of the conversion, training or inference
\* subprocess is written to a log file, reported, and no later step of the
\* workflow proceeds.
C7_Original ==
    \A p \in {"conversion", "training", "inference"} :
        Failed(p) =>
            /\ LogFilesOf(p) \cap fs_exists # {}
            /\ p \in reported
            /\ IF p = "conversion" THEN ~Step3Proceeds ELSE pc3 = "aborted"

\* C7 (amended): a non-zero exit of the converter is captured, written to
\* model_conversion.log and reported; a non-zero exit of the trainer or of
\* the generator is reported by the raising cell and ends that run of the
\* notebook, so no inference follows a failed training.
C7_FailuresReported ==
    /\ (Failed("conversion") /\ pc2 \in {"exit", "done"}) =>
          /\ CONVERSION_LOG \in fs_exists
          /\ fs_text[CONVERSION_LOG] = process.stdout
          /\ "conversion" \in reported
    /\ Failed("training") =>
          /\ pc3 = "aborted"
          /\ "training" \in reported
          /\ infer_status = "none"
    /\ Failed("inference") =>
          /\ pc3 = "aborted"
          /\ "inference" \in reported

\* C7 witness: the conversion of this session failed and, later, so did the
\* training.
C7_Witness ==
    /\ Failed("conversion")
    /\ pc2 = "done"
    /\ Failed("training")

\* C9: once the conversion cell has finished, model_conversion.log exists
\* exactly when the converter of this run exited non-zero, and then holds
\* exactly the output captured from it.
C9_LogIffFailed ==
    pc2 \in {"exit", "done"} =>
        /\ (CONVERSION_LOG \in fs_exists) <=> (process.returncode # 0)
        /\ CONVERSION_LOG \in fs_exists => fs_text[CONVERSION_LOG] = process.stdout

\* C9 witness: on a disk that held the files of an earlier session, its log
\* among them, the converter exited 0 and no log is left.
C9_Witness ==
    /\ pc2 = "exit"
    /\ process.returncode = 0
    /\ fs_text[ADAPTER] = "stale"
    /\ CONVERSION_LOG \notin fs_exists

\* ------------------------------------------------------------------ C11
\* The cells of step 1 in the order of the notebook.
Chain ==
    << "setup", "download", "normalize_title", "normalize_question", "filter_words",
       "filter_score", "drop_columns", "format", "save", "split", "submission",
       "exit", "done" >>

\* The position of cell c in the chain.
Position(c) == CHOOSE k \in DOMAIN Chain : Chain[k] = c

\* The run is at cell c or past it (an aborted run counts by what it holds).
Past(c) == pc1 \in { Chain[k] : k \in (Position(c) + 1)..Len(Chain) }

\* One step of a run: to the next cell of the chain, or to the end of the
\* run at a cell that raised; a new run starts only when none is running.
ChainStep ==
    \/ pc1 \in {"idle", "done", "aborted"} /\ pc1' = "setup"
    \/ Running(pc1) /\ pc1' = "aborted"
    \/ Running(pc1) /\ pc1' = Chain[Position(pc1) + 1]

\* Every row of df has a question of 50 to 500 words.
InWordRange(df) ==
    \A i \in DOMAIN df.rows :
        Len(df.rows[i].question) >= 50 /\ Len(df.rows[i].question) <= 500

\* The score filter is given, and hands on, only records that passed the
\* word-count filter; every later dataset is made of the one before it.
ChainData ==
    /\ pc1 \in {"filter_score", "drop_columns"} =>
          InWordRange(dataset) /\ Indices(dataset) \subseteq Indices(raw_dataset)
    /\ curated_dataset # Undefined =>
          InWordRange(curated_dataset) /\ Indices(curated_dataset) \subseteq Indices(dataset)
    /\ formatted_dataset # Undefined => Formatted(curated_dataset, formatted_dataset)
    /\ SplitCompleted =>
          Indices(train_df) \cup Indices(val_df) = Indices(formatted_dataset)

\* C11 (original): the cells run in one fixed order without cycles, the score
\* filter sees only records that passed the word-count filter, and no file
\* is persisted before the Split step has run.
C11_Original ==
    /\ [][ChainStep]_pc1
    /\ [](ChainData /\ (run_writes \cap JsonlPaths # {} => SplitCompleted))

\* C11 (amended): the cells run in one fixed order without cycles, a run
\* ending at the first cell that raises; the score filter sees only records
\* that passed the word-count filter; the curated file is persisted after
\* Format and before Split, train.jsonl and val.jsonl by the Split step, and
\* submission.jsonl after it.
C11_LinearChain ==
    /\ [][ChainStep]_pc1
    /\ [](/\ ChainData
          /\ CURATED_FILE \in run_writes =>
                formatted_dataset # Undefined /\ (pc1 = "split" \/ PastSplit)
          /\ run_writes \cap {TRAIN_FILE, VAL_FILE} # {} =>
                SplitCompleted /\ CURATED_FILE \in run_writes
          /\ SUBMISSION_FILE \in run_writes =>
                submission_ds # Undefined /\ pc1 \in {"exit", "done"})

\* C11 witness: a run went through every cell; it dropped a record at the
\* word-count filter and wrote the curated file, both partitions and the
\* submission.
C11_Witness ==
    /\ pc1 = "done"
    /\ RawWithWords(501) # {}
    /\ {CURATED_FILE, TRAIN_FILE, VAL_FILE, SUBMISSION_FILE} \subseteq run_writes

\* ------------------------------------------------------------------ C12
\* The output files of step 1.
OutputFiles == {CURATED_FILE, TRAIN_FILE, VAL_FILE, SUBMISSION_FILE}

\* The messages of the cells of step 1 that can raise.
SplitAssertionMessages == {"The dataset is empty.", "VAL_RATIO must be between 0 and 1."}
SplitValueError == "ValueError: test_size"
SubmissionMissing == "The submission dataset does not exist"

\* The lines this run's to_json wrote for dataset ds are what the file holds.
HoldsLinesOf(path, ds, output_dir) ==
    path \in fs_exists /\ fs_jsonl[path] = to_json_lines(ds, output_dir, path)

\* A run that failed has stopped at the failing cell: it is not running and
\* the cells after the failing one have neither computed nor written.
StopsAtFailure ==
    /\ error[1] # "" => pc1 = "aborted"
    /\ error[1] \in SplitAssertionMessages =>
          /\ run_writes \subseteq {DATA_DIR, CURATED_DIR, CURATED_FILE}
          /\ train_df = Undefined /\ val_df = Undefined /\ submission_ds = Undefined
    /\ error[1] = SplitValueError =>
          /\ run_writes \subseteq {DATA_DIR, CURATED_DIR, CURATED_FILE, SPLIT_DIR}
          /\ train_df = Undefined /\ val_df = Undefined /\ submission_ds = Undefined
    /\ error[1] = SubmissionMissing =>
          /\ SUBMISSION_FILE \notin run_writes
          /\ submission_ds = Undefined

\* C12 (original): a failed run executes no stage after the failing one and
\* leaves no output file behind.
C12_Original ==
    /\ StopsAtFailure
    /\ error[1] # "" => run_writes \cap OutputFiles = {}

\* C12 (amended): a failed run executes no stage after the failing one, and
\* what the stages before it wrote stays on disk: the curated file when the
\* split fails on a dataset that is not empty, and the partitions too when
\* the submission step fails.
C12_AbortKeepsPartial ==
    /\ StopsAtFailure
    /\ (error[1] # "" /\ Len(formatted_dataset.rows) > 0) =>
          /\ CURATED_FILE \in run_writes
          /\ HoldsLinesOf(CURATED_FILE, formatted_dataset, CURATED_DIR)
    /\ error[1] = SubmissionMissing =>
          /\ {TRAIN_FILE, VAL_FILE} \subseteq run_writes
          /\ HoldsLinesOf(TRAIN_FILE, train_df, SPLIT_DIR)
          /\ HoldsLinesOf(VAL_FILE, val_df, SPLIT_DIR)

\* C12 witness: a run on a disk without split files failed at the submission
\* cell, after it had written the curated file and both partitions.
C12_Witness ==
    /\ pc1 = "aborted"
    /\ error[1] = SubmissionMissing
    /\ {CURATED_FILE, TRAIN_FILE, VAL_FILE} \subseteq run_writes
    /\ SUBMISSION_FILE \notin fs_exists

\* ------------------------------------------------------------------ C13
\* The notebook that is running, if any.
RunningStage ==
    IF Running(pc1) THEN 1 ELSE IF Running(pc2) THEN 2 ELSE IF Running(pc3) THEN 3 ELSE 0

\* The files a stage reads and the files it produces.
InputsOf(stage) ==
    CASE stage = 1 -> {EVAL_INPUT}
      [] stage = 2 -> {HF_MODEL_DIR}
      [] stage = 3 -> {NEMO_MODEL, TRAIN_FILE, VAL_FILE, SUBMISSION_FILE}
      [] OTHER -> {}

OutputsOf(stage) ==
    CASE stage = 1 -> Step1Outputs
      [] stage = 2 -> {HF_MODEL_DIR, NEMO_MODEL, CONVERSION_LOG}
      [] stage = 3 -> ResultFiles \cup {IDX_TRAIN, IDX_TEST}
      [] OTHER -> {}

AllPaths ==
    Step1Outputs \cup EvalInputFiles \cup Step23Outputs \cup {IDX_TRAIN, IDX_TEST}

\* The step leaves file p in place with its content.
Kept(p) ==
    /\ p \in fs_exists'
    /\ p \in JsonlPaths => fs_jsonl'[p] = fs_jsonl[p]
    /\ p \in TextPaths => fs_text'[p] = fs_text[p]

\* File p was left on disk by an earlier session.
StaleFile(p) ==
    /\ p \in fs_exists
    /\ p \in JsonlPaths => fs_jsonl[p] = StaleLines
    /\ p \in TextPaths => fs_text[p] = "stale"
    /\ p \in JsonlPaths \cup TextPaths

\* An earlier run of step 1 in this session went through its last write.
RanBefore ==
    /\ SUBMISSION_FILE \in fs_exists \ run_writes
    /\ fs_jsonl[SUBMISSION_FILE] # StaleLines

\* A run of step 1 after a complete one changes nothing on disk.
RerunSame == (Running(pc1) /\ RanBefore) => UNCHANGED <<fs_exists, fs_jsonl>>

\* C13 (original): re-running the curation yields the same files, and no
\* step modifies or deletes a file that the current run did not produce
\* (here: a file an earlier session left on disk).
C13_Original ==
    [][/\ RerunSame
       /\ \A p \in AllPaths : StaleFile(p) => Kept(p)]_vars

\* C13 (amended): re-running the curation yields the same files, no step
\* modifies or deletes an input file of its stage, and the only files a
\* step modifies or deletes are output files of its own stage, those of
\* earlier runs included.
C13_InputsKept ==
    [][/\ RerunSame
       /\ \A p \in InputsOf(RunningStage) : p \in fs_exists => Kept(p)
       /\ \A p \in AllPaths \cap fs_exists : Kept(p) \/ p \in OutputsOf(RunningStage)]_vars

\* C13 witness: on a disk that held the results of an earlier session, the
\* trainer has run and the earlier predictions are gone while its inputs
\* are in place, and the curation is being run again after a complete run.
C13_Witness ==
    /\ train_status = "ok"
    /\ fs_text[NEMO_MODEL] = "stale"
    /\ PREDICTIONS \notin fs_exists
    /\ pc1 = "submission"
    /\ RanBefore
    /\ {TRAIN_FILE, VAL_FILE} \subseteq run_writes

\* ------------------------------------------------------------------ C14
\* C14: for every dataset that is not empty and every VAL_RATIO in [0, 1],
\* the split step completes without error and yields a train partition and
\* a validation partition that complement each other.
C14_SplitTotal ==
    (PastSplit /\ Len(formatted_dataset.rows) > 0 /\ VAL_RATIO >= 0 /\ VAL_RATIO <= 100) =>
        /\ SplitCompleted
        /\ error[1] \notin SplitAssertionMessages \cup {SplitValueError}
        /\ Indices(train_df) \cup Indices(val_df) = Indices(formatted_dataset)
        /\ Indices(train_df) \cap Indices(val_df) = {}

\* ------------------------------------------------------------------ C15
\* An earlier run of this session wrote train.jsonl; the current run has not.
EarlierSplit ==
    /\ TRAIN_FILE \in fs_exists \ run_writes
    /\ fs_jsonl[TRAIN_FILE] # StaleLines

\* The split cell completes in this step.
SplitStep == pc1 = "split" /\ pc1' = "submission"

\* C15: the shuffle seeded with 42 is the same in every run, so a run of the
\* split step on the same formatted dataset and VAL_RATIO as an earlier run
\* writes train.jsonl and val.jsonl again with the very same records.
C15_Reproducible ==
    /\ [][\A n \in 1..MaxRecords :
            permutation42[n] # <<>> => permutation42'[n] = permutation42[n]]_vars
    /\ [][(SplitStep /\ EarlierSplit) =>
            /\ fs_jsonl'[TRAIN_FILE] = fs_jsonl[TRAIN_FILE]
            /\ fs_jsonl'[VAL_FILE] = fs_jsonl[VAL_FILE]
            /\ {TRAIN_FILE, VAL_FILE} \subseteq run_writes']_vars

\* C15 witness: after a complete run, a second run has split three records
\* again.
C15_Witness ==
    /\ pc1 = "submission"
    /\ SplitCompleted
    /\ RanBefore
    /\ Len(formatted_dataset.rows) = 3

\* ------------------------------------------------------------------ C16
\* The name under which the records of an output file are tagged.
FilenameOf(path) ==
    CASE path = CURATED_FILE -> "law-stackexchange-curated.jsonl"
      [] path = TRAIN_FILE -> "train.jsonl"
      [] path = VAL_FILE -> "val.jsonl"
      [] path = SUBMISSION_FILE -> "submission.jsonl"

\* Every row of df is tagged with filename.
Tagged(df, filename) == \A i \in DOMAIN df.rows : df.rows[i].filename = filename

\* C16: every record this run has written has exactly the fields input,
\* output and filename, and its filename is the name of the file it is in;
\* the partitions are tagged train.jsonl and val.jsonl before they are
\* written, so they are written to those files and nothing is written under
\* data/split with the curated filename.
C16_RecordShape ==
    /\ \A path \in OutputFiles \cap run_writes :
          \A i \in DOMAIN fs_jsonl[path] :
              /\ DOMAIN fs_jsonl[path][i] = {"input", "output", "filename"}
              /\ fs_jsonl[path][i].filename = FilenameOf(path)
    /\ SplitCompleted =>
          /\ Tagged(train_df, "train.jsonl") /\ Tagged(val_df, "val.jsonl")
          /\ {TRAIN_FILE, VAL_FILE} \subseteq run_writes
    /\ submission_ds # Undefined => Tagged(submission_ds, "submission.jsonl")
    /\ PathJoin(SPLIT_DIR, "law-stackexchange-curated.jsonl") \notin fs_exists

\* C16 witness: a run has written the curated file, both partitions and the
\* submission, each with at least one record.
C16_Witness ==
    /\ pc1 = "exit"
    /\ OutputFiles \subseteq run_writes
    /\ \A path \in OutputFiles : Len(fs_jsonl[path]) > 0

\* ------------------------------------------------------------------ C17
\* C17: once the training cell of a run has run, nothing under RESULT_DIR is
\* left from an earlier run: an adapter checkpoint is there only if this
\* run's trainer wrote it (none after a failed training), predictions only
\* if this run's generator wrote them, and the generator is started only
\* with the adapter of this run.
C17_NoEarlierModel ==
    /\ train_status = "failed" => ADAPTER \notin fs_exists
    /\ train_status = "ok" => ADAPTER \in fs_exists /\ fs_text[ADAPTER] = "trained"
    /\ train_status # "none" =>
          /\ fs_text[ADAPTER] # "stale" /\ fs_text[PREDICTIONS] # "stale"
          /\ PREDICTIONS \in fs_exists => infer_status = "ok"
    /\ (pc3 = "infer" \/ infer_status # "none") => train_status = "ok"

\* C17 witness: on a disk that held an adapter and predictions of an earlier
\* session, the training cell has run and its trainer failed.
C17_Witness ==
    /\ train_status = "failed"
    /\ fs_text[NEMO_MODEL] = "stale"
    /\ fs_text[CONVERSION_LOG] = "stale"

\* ------------------------------------------------------------------ C18
\* The two normalization steps of the pipeline, applied to df.
Normalize(df) ==
    Modify(Modify(df, "UnicodeReformatter", "title"), "UnicodeReformatter", "question")

====
